---- MODULE Spec2Model ----
(***************************************************************************)
(* Call-flow dispatcher of src/main.py: the call state store               *)
(* (call_states.json), the pathway graph (flow_nodes), the assistant       *)
(* config (assistant_config and assistant_config.json), the two handlers   *)
(* POST /chat/completions and POST /config, and the generator of a         *)
(* streamed response, generate_streaming_response.                         *)
(*                                                                         *)
(* JSON values are records with the same three fields, so that any two of  *)
(* them can be compared: t is the JSON type, s the text of a string, o the *)
(* members of an object as a sequence of <<key, text>> pairs.              *)
(***************************************************************************)
EXTENDS Integers, Sequences, FiniteSets, TLC

VARIABLES
    flow_nodes,         \* main.py:76   the graph, nodes in dict insertion order
    call_state_file,    \* main.py:20   content of call_states.json: callId -> node name
    assistant_config,   \* main.py:75   the in-memory config dict, <<key, value>> in insertion order
    config_file,        \* main.py:22   members of assistant_config.json, in file order
    pc,                 \* position of each request handler
    request_data,       \* main.py:149  body of each POST /chat/completions
    states,             \* main.py:87,98  the dict a handler loaded from call_states.json
    current_node_name,  \* main.py:153
    openai_params,      \* main.py:168  what the handler has built for the provider
    wrote,              \* the node name the handler's set_current_node_name saved ("" if none)
    pre_states,         \* history: call_states.json as it was when a request served alone arrived
    response,           \* status and kind of each handler's answer
    config_post,        \* the POST /config being answered: body and status
    turns,              \* requests the threaded server has accepted so far
    boot_states,        \* history: call_states.json as it was when the server started
    stream_response,    \* main.py:124  the provider's chunks the generator has yet to take
    consumed,           \* history: the chunks the generator has taken, in order
    frames,             \* the frames the generator has yielded, in order
    stream_pc           \* the generator: "none", "open", "ended" or "raised"

vars == <<flow_nodes, call_state_file, assistant_config, config_file, pc, request_data,
          states, current_node_name, openai_params, wrote, pre_states, response,
          config_post, turns, boot_states, stream_response, consumed, frames, stream_pc>>

\* the state of generate_streaming_response
streamVars == <<stream_response, consumed, frames, stream_pc>>

-----------------------------------------------------------------------------
(* Bounds *)

NumRequests == 2
NumCallIds == 2
\* requests a run of the threaded server accepts
MaxTurns == 2
\* chunks in a provider stream
MaxChunks == 2

Requests == 1..NumRequests
CallIdPool == <<"abc", "x", "y", "z">>
CallIds == {CallIdPool[i] : i \in 1..NumCallIds}

-----------------------------------------------------------------------------
(* JSON values *)

JNull == [t |-> "null", s |-> "", o |-> <<>>]
JStr(x) == [t |-> "str", s |-> x, o |-> <<>>]
JObj(members) == [t |-> "obj", s |-> "", o |-> members]

\* Python truthiness of a JSON value: None, "" and {} are falsy
Truthy(v) ==
    CASE v.t = "null" -> FALSE
      [] v.t = "str" -> v.s /= ""
      [] OTHER -> Len(v.o) > 0

\* dict keys: JSON object keys are strings; dict.update with a list of pairs
\* can add a key of another hashable type (an int)
StrKey(x) == <<"str", x>>
IntKey(x) == <<"int", x>>

-----------------------------------------------------------------------------
(* The pathway graph *)

Dest(name) == [has_stepName |-> TRUE, stepName |-> name]
DestNoStep == [has_stepName |-> FALSE, stepName |-> ""]

Node(name, instruction, destinations) ==
    [name |-> name, has_instruction |-> TRUE, instruction |-> instruction,
     destinations |-> destinations]
BareNode(name, destinations) ==
    [name |-> name, has_instruction |-> FALSE, instruction |-> "",
     destinations |-> destinations]

\* pathways.json as the process may find it: the default file the program
\* writes (one self-looping "start"), a two-node walk, a chain without "start"
\* ending in a reference to a missing node, a file that repeats a name and
\* lists "start" second, a file with an empty node name, and an empty list
DefaultPathways ==
    <<Node("start", "You are a helpful assistant.", <<Dest("start")>>)>>
PathwayFiles ==
    { DefaultPathways,
      <<BareNode("start", <<Dest("end")>>), BareNode("end", <<>>)>>,
      <<Node("n", "Greet", <<Dest("m"), Dest("p")>>), Node("m", "Ask", <<Dest("p")>>),
        Node("p", "Bye", <<Dest("ghost")>>)>>,
      <<Node("intro", "Old", <<Dest("start")>>), Node("start", "Hi", <<Dest("intro")>>),
        Node("intro", "Intro", <<DestNoStep>>)>>,
      <<Node("start", "Hi", <<Dest("")>>), Node("", "Anon", <<>>)>>,
      <<>> }

RECURSIVE IndexOfName(_, _, _)
\* position of the key `name` in the dict, 0 if it is not a key
IndexOfName(nodes, name, i) ==
    IF i > Len(nodes) THEN 0
    ELSE IF nodes[i].name = name THEN i
    ELSE IndexOfName(nodes, name, i + 1)

RECURSIVE load_pathways_from(_, _, _)
load_pathways_from(raw_nodes, i, acc) ==
    IF i > Len(raw_nodes) THEN acc
    ELSE LET at == IndexOfName(acc, raw_nodes[i].name, 1)
         IN  load_pathways_from(raw_nodes, i + 1,
                 IF at = 0 THEN Append(acc, raw_nodes[i])
                 ELSE [acc EXCEPT ![at] = raw_nodes[i]])

\* {node["name"]: node for node in raw_nodes}: a repeated name keeps its first
\* position and takes the last node
load_pathways(raw_nodes) == load_pathways_from(raw_nodes, 1, <<>>)

\* name in flow_nodes
InGraph(name) == IndexOfName(flow_nodes, name, 1) /= 0
\* flow_nodes[name]
NodeOf(name) == flow_nodes[IndexOfName(flow_nodes, name, 1)]

\* Python truthiness of a str
TruthyStr(x) == x /= ""

\* mutant: the default node is "start" whether or not the graph has it
DefaultNodeNameStart == "start"

\* mutant: the default node is the first node even when there is a "start"
DefaultNodeNameFirst == flow_nodes[1].name

\* "start" if "start" in flow_nodes else list(flow_nodes.keys())[0]
DefaultNodeName == IF InGraph("start") THEN "start" ELSE flow_nodes[1].name

-----------------------------------------------------------------------------
(* Python dicts with JSON values: a sequence of <<key, value>> in insertion order *)

RECURSIVE DictIndex(_, _, _)
DictIndex(d, k, i) ==
    IF i > Len(d) THEN 0
    ELSE IF d[i][1] = k THEN i
    ELSE DictIndex(d, k, i + 1)

\* k in d
DictHas(d, k) == DictIndex(d, k, 1) /= 0
\* d[k], for a key of d
DictGet(d, k) == d[DictIndex(d, k, 1)][2]
\* mutant: a stored member is added even when its key is there already
DictSetAppend(d, k, v) == Append(d, <<k, v>>)

\* d[k] = v: a new key goes last, an old key keeps its place
DictSet(d, k, v) ==
    LET at == DictIndex(d, k, 1)
    IN  IF at = 0 THEN Append(d, <<k, v>>) ELSE [d EXCEPT ![at] = <<k, v>>]
DictKeys(d) == {d[i][1] : i \in 1..Len(d)}
\* dict equality ignores insertion order
DictEq(d, e) ==
    /\ DictKeys(d) = DictKeys(e)
    /\ \A k \in DictKeys(d) : DictGet(d, k) = DictGet(e, k)

\* members of a JSON object value: <<key text, text>> pairs
ObjHas(v, k) == v.t = "obj" /\ \E i \in 1..Len(v.o) : v.o[i][1] = k

\* json.dump(assistant_config, f): every key is written as a string (an int
\* key 1 becomes "1"), members in dict order
json_dump(d) == [i \in 1..Len(d) |-> <<StrKey(d[i][1][2]), d[i][2]>>]

RECURSIVE json_load_from(_, _, _)
json_load_from(members, i, acc) ==
    IF i > Len(members) THEN acc
    ELSE json_load_from(members, i + 1, DictSet(acc, members[i][1], members[i][2]))
\* json.load(f): of a repeated member name the last value is kept
json_load(members) == json_load_from(members, 1, <<>>)

KeyModel == StrKey("model")
KeyForwarding == StrKey("forwardingPhoneNumber")

\* main.py:31-43, the config the program writes when there is no file
default_config ==
    <<<<KeyModel, JObj(<<<<"provider", "openai">>, <<"model", "gpt-4o">>>>)>>,
      <<KeyForwarding, JStr("+40761983263")>>>>

\* assistant_config.json as the process may find it: the default, or a file
\* that leaves the optional forwardingPhoneNumber out
ConfigFiles ==
    { json_dump(default_config),
      json_dump(<<<<KeyModel, JObj(<<<<"provider", "openai">>, <<"model", "gpt-4o">>>>)>>>>) }

\* Bodies of POST /config as request.get_json() returns them.  kind is the JSON
\* type; members are an object's members; items are a list's elements, each a
\* [k, v] pair or something that is no pair.
ObjBody(members) == [kind |-> "obj", members |-> members, items |-> <<>>, text |-> ""]
ListBody(items) == [kind |-> "list", members |-> <<>>, items |-> items, text |-> ""]
NullBody == [kind |-> "null", members |-> <<>>, items |-> <<>>, text |-> ""]
NumBody(x) == [kind |-> "num", members |-> <<>>, items |-> <<>>, text |-> x]
StrBody(x) == [kind |-> "str", members |-> <<>>, items |-> <<>>, text |-> x]
PairItem(k, v) == [pair |-> TRUE, k |-> k, v |-> v]
NoPairItem == [pair |-> FALSE, k |-> StrKey(""), v |-> JNull]

NoConfigPost == [body |-> NullBody, status |-> 0]

MappingBodies ==
    { ObjBody(<<<<KeyForwarding, JStr("")>>>>),
      ObjBody(<<<<KeyForwarding, JStr("+15550100")>>>>),
      ObjBody(<<<<KeyModel, JObj(<<<<"provider", "azure">>>>)>>>>),
      ObjBody(<<>>) }
OtherBodies ==
    { NullBody, ListBody(<<>>), NumBody("0"), NumBody("5"), StrBody("ab"),
      ListBody(<<PairItem(IntKey("1"), JStr("x"))>>),
      ListBody(<<PairItem(KeyForwarding, JStr("+15550100")), NoPairItem>>) }
ConfigBodies == MappingBodies \cup OtherBodies

\* `if new_config:` (main.py:203)
TruthyBody(b) ==
    CASE b.kind = "null" -> FALSE
      [] b.kind = "obj" -> Len(b.members) > 0
      [] b.kind = "list" -> Len(b.items) > 0
      [] b.kind = "num" -> b.text /= "0"
      [] OTHER -> b.text /= ""

RECURSIVE update_members(_, _, _)
update_members(d, members, i) ==
    IF i > Len(members) THEN d
    ELSE update_members(DictSet(d, members[i][1], members[i][2]), members, i + 1)

RECURSIVE update_items(_, _, _)
\* dict.update(list): the pairs are stored one by one; an element that is no
\* pair raises, and the pairs before it stay stored
update_items(d, items, i) ==
    IF i > Len(items) THEN [dict |-> d, raised |-> FALSE]
    ELSE IF ~items[i].pair THEN [dict |-> d, raised |-> TRUE]
    ELSE update_items(DictSet(d, items[i].k, items[i].v), items, i + 1)

\* assistant_config.update(new_config) (main.py:204) for a truthy new_config:
\* a mapping is merged key by key, a list is read as pairs, a number is not
\* iterable (TypeError) and a str yields 1-character elements (ValueError)
dict_update(d, b) ==
    CASE b.kind = "obj" -> [dict |-> update_members(d, b.members, 1), raised |-> FALSE]
      [] b.kind = "list" -> update_items(d, b.items, 1)
      [] OTHER -> [dict |-> d, raised |-> TRUE]

-----------------------------------------------------------------------------
(* POST /chat/completions: request bodies and what the handler builds *)

Msg(role, content) == [role |-> role, content |-> content]

Body(call_id, stream, messages) ==
    [has_call_id |-> TRUE, call_id |-> call_id, stream |-> stream,
     has_messages |-> TRUE, messages |-> messages]
NoRequest ==
    [has_call_id |-> FALSE, call_id |-> "", stream |-> FALSE,
     has_messages |-> FALSE, messages |-> <<>>]

\* histories a caller sends: an empty one and one of three turns
Histories ==
    { <<>>,
      <<Msg("user", "hello"), Msg("assistant", "hi"), Msg("user", "transfer me")>> }

\* a body without call.id
NoCallBody ==
    [has_call_id |-> FALSE, call_id |-> "", stream |-> FALSE,
     has_messages |-> TRUE, messages |-> <<Msg("user", "hello")>>]

\* every body: with or without call.id, stream on or off, messages missing or given
RequestBodies ==
    { [has_call_id |-> TRUE, call_id |-> c, stream |-> st,
       has_messages |-> hm, messages |-> IF hm THEN ms ELSE <<>>] :
         c \in CallIds, st \in BOOLEAN, hm \in BOOLEAN, ms \in Histories }
    \cup {NoCallBody}

\* the bodies of well-formed turns that do not stream
TurnBodies == { Body(c, FALSE, <<Msg("user", "hello")>>) : c \in CallIds }

NoParams ==
    [built |-> FALSE, model |-> "", messages |-> <<>>, stream |-> FALSE,
     has_functions |-> FALSE, functions |-> <<>>, function_call |-> ""]
NoResponse == [status |-> 0, kind |-> "none", provider |-> "none"]
ErrorResponse(exception) == [status |-> 500, kind |-> exception, provider |-> "none"]

EmptyStates == [c \in {} |-> ""]
\* states[call_id] = node_name
StatesSet(st, call_id, node_name) ==
    [c \in (DOMAIN st) \cup {call_id} |-> IF c = call_id THEN node_name ELSE st[c]]
\* states.get(call_id), "" standing for None (both are falsy at main.py:90)
StatesGet(st, call_id) == IF call_id \in DOMAIN st THEN st[call_id] ELSE ""

\* json.load / json.dump of call_states.json (main.py:78-84): the dict maps
\* str to str (call.id and node names are JSON strings), which JSON keeps as is
load_call_states == call_state_file
save_call_states(st) == st

TransferSentence ==
    "\nIf the user requests a transfer, you can transfer them using the transferCall function."
NoInstructions == "No instructions available."
TransferCall == [name |-> "transferCall", required |-> <<"destination">>]

\* mutant: transferCall is offered whatever the config says
get_available_functions_always(config) == <<TransferCall>>

\* main.py:102-121
get_available_functions(config) ==
    IF DictHas(config, KeyForwarding) /\ Truthy(DictGet(config, KeyForwarding))
    THEN <<TransferCall>>
    ELSE <<>>

\* main.py:156-161, for a config that has the key forwardingPhoneNumber
SystemMessage(node, config) ==
    LET next_prompt == IF node.has_instruction THEN node.instruction ELSE NoInstructions
    IN  IF Truthy(DictGet(config, KeyForwarding))
        THEN next_prompt \o TransferSentence
        ELSE next_prompt

\* mutant: the whole history of the caller is replayed to the provider
ProviderMessagesWhole(system_message, body) ==
    <<Msg("system", system_message)>> \o (IF body.has_messages THEN body.messages ELSE <<>>)

\* main.py:163-166
ProviderMessages(system_message, body) ==
    LET messages == <<Msg("system", system_message)>>
    IN  IF body.has_messages /\ Len(body.messages) > 0
        THEN Append(messages, body.messages[Len(body.messages)])
        ELSE messages

\* assistant_config["model"]["model"] (main.py:169) can be read
HasModelId(config) ==
    /\ DictHas(config, KeyModel)
    /\ ObjHas(DictGet(config, KeyModel), "model")
ModelId(config) ==
    LET o == DictGet(config, KeyModel).o
    IN  o[CHOOSE i \in 1..Len(o) : o[i][1] = "model"][2]

\* mutant: a node without a usable first destination sends the call back to
\* the default node
NextNodeNameRestart(node) ==
    IF Len(node.destinations) > 0
       /\ node.destinations[1].has_stepName
       /\ TruthyStr(node.destinations[1].stepName)
       /\ InGraph(node.destinations[1].stepName)
    THEN node.destinations[1].stepName
    ELSE DefaultNodeName

\* main.py:181-184: the node the handler moves the call to, "" if it stays
NextNodeName(node) ==
    IF Len(node.destinations) > 0
       /\ node.destinations[1].has_stepName
       /\ TruthyStr(node.destinations[1].stepName)
       /\ InGraph(node.destinations[1].stepName)
    THEN node.destinations[1].stepName
    ELSE ""

-----------------------------------------------------------------------------
(* Initial state: the module-level code of main.py:24-76 has run *)

Loaded ==
    /\ flow_nodes \in {load_pathways(f) : f \in PathwayFiles}
    /\ call_state_file \in {EmptyStates, [c \in {CallIdPool[1]} |-> "ghost"]}
    /\ config_file \in ConfigFiles
    /\ assistant_config = json_load(config_file)
    /\ pc = [r \in Requests |-> "idle"]
    /\ request_data = [r \in Requests |-> NoRequest]
    /\ states = [r \in Requests |-> EmptyStates]
    /\ current_node_name = [r \in Requests |-> ""]
    /\ openai_params = [r \in Requests |-> NoParams]
    /\ wrote = [r \in Requests |-> ""]
    /\ pre_states = [r \in Requests |-> EmptyStates]
    /\ response = [r \in Requests |-> NoResponse]
    /\ config_post = NoConfigPost
    /\ turns = 0
    /\ boot_states = call_state_file

\* the server has started and no response is being streamed
Init ==
    /\ Loaded
    /\ stream_response = <<>>
    /\ consumed = <<>>
    /\ frames = <<>>
    /\ stream_pc = "none"

-----------------------------------------------------------------------------
(* POST /chat/completions, main.py:147-195, one action per step of the handler *)

Fail(r, exception) ==
    /\ pc' = [pc EXCEPT ![r] = "responded"]
    /\ response' = [response EXCEPT ![r] = ErrorResponse(exception)]

\* main.py:149-151: the body is read; a body without call.id raises KeyError
Start(r, bodies) ==
    /\ pc[r] = "idle"
    /\ \E b \in bodies :
         /\ request_data' = [request_data EXCEPT ![r] = b]
         /\ IF b.has_call_id
            THEN /\ pc' = [pc EXCEPT ![r] = "get_load"]
                 /\ response' = response
            ELSE Fail(r, "KeyError")
    /\ UNCHANGED <<flow_nodes, call_state_file, assistant_config, config_file, states,
                   current_node_name, openai_params, wrote, config_post>>
    /\ UNCHANGED <<boot_states, streamVars>>

\* main.py:88-92 and 95 on the loaded dict: the node name returned, the dict
\* as the function leaves it, whether it is still to be saved (main.py:93), and
\* whether list(flow_nodes.keys())[0] raised IndexError on an empty graph
get_current_node_name(loaded, call_id) ==
    LET node_name == StatesGet(loaded, call_id)
    IN  IF TruthyStr(node_name)
        THEN [node_name |-> node_name, states |-> loaded, save |-> FALSE, raised |-> FALSE]
        ELSE IF ~InGraph("start") /\ Len(flow_nodes) = 0
        THEN [node_name |-> "", states |-> loaded, save |-> FALSE, raised |-> TRUE]
        ELSE [node_name |-> DefaultNodeName,
              states |-> StatesSet(loaded, call_id, DefaultNodeName),
              save |-> TRUE, raised |-> FALSE]

\* main.py:87-92: get_current_node_name loads the file and looks the call up;
\* its local dict lives on only if it is still to be saved
GetLoad(r) ==
    /\ pc[r] = "get_load"
    /\ LET got == get_current_node_name(load_call_states, request_data[r].call_id)
       IN  /\ states' = [states EXCEPT ![r] = IF got.save THEN got.states ELSE EmptyStates]
           /\ current_node_name' = [current_node_name EXCEPT ![r] = got.node_name]
           /\ IF got.raised
              THEN Fail(r, "IndexError")
              ELSE /\ pc' = [pc EXCEPT ![r] = IF got.save THEN "get_save" ELSE "build"]
                   /\ response' = response
    /\ UNCHANGED <<flow_nodes, call_state_file, assistant_config, config_file,
                   request_data, openai_params, wrote, pre_states, config_post, turns>>
    /\ UNCHANGED <<boot_states, streamVars>>

\* main.py:93 and 95: save_call_states(states) writes the whole loaded dict
\* back and the function returns
GetSave(r) ==
    /\ pc[r] = "get_save"
    /\ call_state_file' = save_call_states(states[r])
    /\ states' = [states EXCEPT ![r] = EmptyStates]
    /\ pc' = [pc EXCEPT ![r] = "build"]
    /\ UNCHANGED <<flow_nodes, assistant_config, config_file, request_data,
                   current_node_name, openai_params, wrote, pre_states, response,
                   config_post, turns>>
    /\ UNCHANGED <<boot_states, streamVars>>

\* main.py:168-179
BuildParams(config, node, body) ==
    LET functions == get_available_functions(config)
    IN  [built |-> TRUE,
         model |-> ModelId(config),
         messages |-> ProviderMessages(SystemMessage(node, config), body),
         stream |-> body.stream,
         has_functions |-> Len(functions) > 0,
         functions |-> IF Len(functions) > 0 THEN functions ELSE <<>>,
         function_call |-> IF Len(functions) > 0 THEN "auto" ELSE ""]

\* main.py:154-179: the node is looked up (KeyError for a name that is not in
\* the graph), the system message read from assistant_config (KeyError without
\* forwardingPhoneNumber), the model id read (KeyError or TypeError without
\* model.model) and the provider parameters assembled
Build(r) ==
    /\ pc[r] = "build"
    /\ IF ~InGraph(current_node_name[r])
       THEN Fail(r, "KeyError") /\ openai_params' = openai_params
       ELSE IF ~DictHas(assistant_config, KeyForwarding)
       THEN Fail(r, "KeyError") /\ openai_params' = openai_params
       ELSE IF ~HasModelId(assistant_config)
       THEN Fail(r, "KeyError") /\ openai_params' = openai_params
       ELSE /\ openai_params' = [openai_params EXCEPT ![r] =
                  BuildParams(assistant_config, NodeOf(current_node_name[r]), request_data[r])]
            /\ pc' = [pc EXCEPT ![r] = "advance"]
            /\ response' = response
    /\ UNCHANGED <<flow_nodes, call_state_file, assistant_config, config_file,
                   request_data, states, current_node_name, wrote, pre_states,
                   config_post, turns>>
    /\ UNCHANGED <<boot_states, streamVars>>

\* mutant: a streaming request does not advance the call
AdvanceUnlessStreaming(r) ==
    /\ pc[r] = "advance"
    /\ IF NextNodeName(NodeOf(current_node_name[r])) /= "" /\ ~request_data[r].stream
       THEN /\ states' = [states EXCEPT ![r] = load_call_states]
            /\ pc' = [pc EXCEPT ![r] = "set_save"]
       ELSE /\ states' = states
            /\ pc' = [pc EXCEPT ![r] = "provider"]
    /\ UNCHANGED <<flow_nodes, call_state_file, assistant_config, config_file,
                   request_data, current_node_name, openai_params, wrote, pre_states,
                   response, config_post, turns>>
    /\ UNCHANGED <<boot_states, streamVars>>

\* main.py:181-185 and 98: with a next node, set_current_node_name loads the file
Advance(r) ==
    /\ pc[r] = "advance"
    /\ IF NextNodeName(NodeOf(current_node_name[r])) /= ""
       THEN /\ states' = [states EXCEPT ![r] = load_call_states]
            /\ pc' = [pc EXCEPT ![r] = "set_save"]
       ELSE /\ states' = states
            /\ pc' = [pc EXCEPT ![r] = "provider"]
    /\ UNCHANGED <<flow_nodes, call_state_file, assistant_config, config_file,
                   request_data, current_node_name, openai_params, wrote, pre_states,
                   response, config_post, turns>>
    /\ UNCHANGED <<boot_states, streamVars>>

\* mutant: the node written is the successor of the node the loaded dict holds
\* for the call, not of the node the handler resolved
SetSaveFromLoaded(r) ==
    /\ pc[r] = "set_save"
    /\ LET call_id == request_data[r].call_id
           held == IF call_id \in DOMAIN states[r] /\ InGraph(states[r][call_id])
                   THEN states[r][call_id]
                   ELSE current_node_name[r]
           next_node_name == IF NextNodeName(NodeOf(held)) /= ""
                             THEN NextNodeName(NodeOf(held))
                             ELSE held
           updated == StatesSet(states[r], call_id, next_node_name)
       IN  /\ states' = [states EXCEPT ![r] = EmptyStates]
           /\ call_state_file' = save_call_states(updated)
           /\ wrote' = [wrote EXCEPT ![r] = next_node_name]
    /\ pc' = [pc EXCEPT ![r] = "provider"]
    /\ UNCHANGED <<flow_nodes, assistant_config, config_file, request_data,
                   current_node_name, openai_params, pre_states, response, config_post, turns>>
    /\ UNCHANGED <<boot_states, streamVars>>

\* main.py:99-100: the loaded dict, with the call's entry overwritten, is saved
SetSave(r) ==
    /\ pc[r] = "set_save"
    /\ LET next_node_name == NextNodeName(NodeOf(current_node_name[r]))
           updated == StatesSet(states[r], request_data[r].call_id, next_node_name)
       IN  /\ states' = [states EXCEPT ![r] = EmptyStates]
           /\ call_state_file' = save_call_states(updated)
           /\ wrote' = [wrote EXCEPT ![r] = next_node_name]
    /\ pc' = [pc EXCEPT ![r] = "provider"]
    /\ UNCHANGED <<flow_nodes, assistant_config, config_file, request_data,
                   current_node_name, openai_params, pre_states, response, config_post, turns>>
    /\ UNCHANGED <<boot_states, streamVars>>


\* what client.chat.completions.create does: it answers with text, answers
\* with a function call, or raises
ProviderOutcomes == {"text", "function_call", "error"}

\* mutant: a provider failure puts the call back on the node it was resolved at
ProviderRollsBack(r, outcomes) ==
    /\ pc[r] = "provider"
    /\ \E outcome \in outcomes :
         /\ response' = [response EXCEPT ![r] =
                IF outcome = "error"
                THEN [status |-> 500, kind |-> "ProviderError", provider |-> outcome]
                ELSE [status |-> 200,
                      kind |-> IF openai_params[r].stream THEN "text/event-stream"
                               ELSE "application/json",
                      provider |-> outcome]]
         /\ call_state_file' =
                IF outcome = "error"
                THEN StatesSet(call_state_file, request_data[r].call_id, current_node_name[r])
                ELSE call_state_file
    /\ pc' = [pc EXCEPT ![r] = "responded"]
    /\ UNCHANGED <<flow_nodes, assistant_config, config_file, request_data, states,
                   current_node_name, openai_params, wrote, pre_states, config_post, turns>>
    /\ UNCHANGED <<boot_states, streamVars>>

\* main.py:187-195
Provider(r, outcomes) ==
    /\ pc[r] = "provider"
    /\ \E outcome \in outcomes :
         response' = [response EXCEPT ![r] =
             IF outcome = "error"
             THEN [status |-> 500, kind |-> "ProviderError", provider |-> outcome]
             ELSE [status |-> 200,
                   kind |-> IF openai_params[r].stream THEN "text/event-stream"
                            ELSE "application/json",
                   provider |-> outcome]]
    /\ pc' = [pc EXCEPT ![r] = "responded"]
    /\ UNCHANGED <<flow_nodes, call_state_file, assistant_config, config_file,
                   request_data, states, current_node_name, openai_params, wrote,
                   pre_states, config_post, turns>>
    /\ UNCHANGED <<boot_states, streamVars>>

\* the response is sent and the handler's locals are gone
Finish(r) ==
    /\ pc[r] = "responded"
    /\ pc' = [pc EXCEPT ![r] = "idle"]
    /\ request_data' = [request_data EXCEPT ![r] = NoRequest]
    /\ states' = [states EXCEPT ![r] = EmptyStates]
    /\ current_node_name' = [current_node_name EXCEPT ![r] = ""]
    /\ openai_params' = [openai_params EXCEPT ![r] = NoParams]
    /\ wrote' = [wrote EXCEPT ![r] = ""]
    /\ pre_states' = [pre_states EXCEPT ![r] = EmptyStates]
    /\ response' = [response EXCEPT ![r] = NoResponse]
    /\ UNCHANGED <<flow_nodes, call_state_file, assistant_config, config_file,
                   config_post, turns>>
    /\ UNCHANGED <<boot_states, streamVars>>

-----------------------------------------------------------------------------
(* POST /config, main.py:202-209 *)

\* main.py:202-209 on the body new_config: the config, the file and the status
\* it leaves.  An exception out of update() is answered 500 by Flask, after
\* update() has stored what it stored and before the file is written.
config_handler(config, file, new_config) ==
    IF TruthyBody(new_config)
    THEN LET updated == dict_update(config, new_config)
         IN  IF updated.raised
             THEN [config |-> updated.dict, file |-> file, status |-> 500]
             ELSE [config |-> updated.dict, file |-> json_dump(updated.dict),
                   status |-> 200]
    ELSE [config |-> config, file |-> file, status |-> 400]

Config(bodies) ==
    /\ config_post.status = 0
    /\ \E new_config \in bodies :
         LET done == config_handler(assistant_config, config_file, new_config)
         IN  /\ assistant_config' = done.config
             /\ config_file' = done.file
             /\ config_post' = [body |-> new_config, status |-> done.status]
    /\ UNCHANGED <<flow_nodes, call_state_file, pc, request_data, states,
                   current_node_name, openai_params, wrote, pre_states, response, turns>>
    /\ UNCHANGED <<boot_states, streamVars>>

\* the answer to POST /config is sent
ConfigRespond ==
    /\ config_post.status /= 0
    /\ config_post' = NoConfigPost
    /\ UNCHANGED <<flow_nodes, call_state_file, assistant_config, config_file, pc,
                   request_data, states, current_node_name, openai_params, wrote,
                   pre_states, response, turns>>
    /\ UNCHANGED <<boot_states, streamVars>>

-----------------------------------------------------------------------------
(* generate_streaming_response, main.py:123-145 *)

\* chunk.choices[0].delta of a provider chunk: content is None or a str,
\* function_call is missing or None, or has a name and the text of its arguments
NoFunctionCall == [present |-> FALSE, name |-> "", arguments |-> ""]
FunctionCall(name, arguments) == [present |-> TRUE, name |-> name, arguments |-> arguments]
Chunk(has_content, content, function_call) ==
    [has_content |-> has_content, content |-> content, function_call |-> function_call]

\* texts of function_call.arguments: an object with a destination, an object
\* without one, a JSON string, and a fragment that is no JSON
ArgsDestination == "{\"destination\": \"+15550123\"}"
ArgsNoDestination == "{}"
ArgsString == "\"+15550123\""
ArgsPartial == "{\"destination\""

\* json.loads(function_call.arguments) (main.py:133): the value, or
\* JSONDecodeError for a text that is no JSON
json_loads(text) ==
    CASE text = ArgsDestination ->
             [raised |-> FALSE, value |-> JObj(<<<<"destination", "+15550123">>>>)]
      [] text = ArgsNoDestination -> [raised |-> FALSE, value |-> JObj(<<>>)]
      [] text = ArgsString -> [raised |-> FALSE, value |-> JStr("+15550123")]
      [] OTHER -> [raised |-> TRUE, value |-> JNull]

\* the chunks a provider sends: text, an empty text, a chunk without content
\* or function call, transferCall with each of the argument texts (once
\* together with content), and a call of another function
ProviderChunks ==
    { Chunk(TRUE, "Hello", NoFunctionCall),
      Chunk(TRUE, "", NoFunctionCall),
      Chunk(FALSE, "", NoFunctionCall),
      Chunk(FALSE, "", FunctionCall("transferCall", ArgsDestination)),
      Chunk(TRUE, "One moment.", FunctionCall("transferCall", ArgsNoDestination)),
      Chunk(FALSE, "", FunctionCall("transferCall", ArgsString)),
      Chunk(FALSE, "", FunctionCall("transferCall", ArgsPartial)),
      Chunk(FALSE, "", FunctionCall("lookup", ArgsNoDestination)) }

\* the streams a provider sends: up to MaxChunks chunks
ProviderStreams == UNION {[1..n -> ProviderChunks] : n \in 0..MaxChunks}

\* a frame "data: <json>\n\n" (main.py:126-127 and 135-143), with the position
\* of the chunk it was yielded for
ContentFrame(at, content) ==
    [kind |-> "content", content |-> content, destination |-> JNull, chunk |-> at]
FunctionCallFrame(at, destination) ==
    [kind |-> "function_call", content |-> "", destination |-> destination, chunk |-> at]

\* the loop body, main.py:125-145, for the chunk at position `at`: the frames it
\* yields and whether it ends in an exception that is not caught.  json.loads
\* may raise JSONDecodeError, which is caught and logged; arguments.get raises
\* AttributeError when the parsed value is no dict; the default of get,
\* assistant_config["forwardingPhoneNumber"], is evaluated before get looks the
\* key up and raises KeyError when the config has no such key.
stream_chunk(at, chunk, config) ==
    LET content == IF chunk.has_content THEN <<ContentFrame(at, chunk.content)>> ELSE <<>>
        function_call == chunk.function_call
        parsed == json_loads(function_call.arguments)
        arguments == parsed.value
    IN  IF ~(function_call.present /\ function_call.name = "transferCall")
        THEN [frames |-> content, raised |-> FALSE]
        ELSE IF parsed.raised
        THEN [frames |-> content, raised |-> FALSE]
        ELSE IF arguments.t /= "obj"
        THEN [frames |-> content, raised |-> TRUE]
        ELSE IF ~DictHas(config, KeyForwarding)
        THEN [frames |-> content, raised |-> TRUE]
        ELSE LET destination ==
                     IF ObjHas(arguments, "destination")
                     THEN JStr(arguments.o[CHOOSE i \in 1..Len(arguments.o) :
                                               arguments.o[i][1] = "destination"][2])
                     ELSE DictGet(config, KeyForwarding)
             IN  [frames |-> Append(content, FunctionCallFrame(at, destination)),
                  raised |-> FALSE]

\* one iteration of `for chunk in stream_response` (main.py:124): an exception
\* out of the loop body ends the generator, with the chunks after it not taken
generate_streaming_response ==
    /\ stream_pc = "open"
    /\ stream_response /= <<>>
    /\ LET chunk == Head(stream_response)
           out == stream_chunk(Len(consumed) + 1, chunk, assistant_config)
       IN  /\ frames' = frames \o out.frames
           /\ consumed' = Append(consumed, chunk)
           /\ stream_response' = Tail(stream_response)
           /\ stream_pc' = IF out.raised THEN "raised" ELSE "open"
    /\ UNCHANGED <<flow_nodes, call_state_file, assistant_config, config_file, pc,
                   request_data, states, current_node_name, openai_params, wrote,
                   pre_states, response, config_post, turns, boot_states>>

\* the provider's stream is exhausted and the generator returns
StreamEnd ==
    /\ stream_pc = "open"
    /\ stream_response = <<>>
    /\ stream_pc' = "ended"
    /\ UNCHANGED <<flow_nodes, call_state_file, assistant_config, config_file, pc,
                   request_data, states, current_node_name, openai_params, wrote,
                   pre_states, response, config_post, turns, boot_states,
                   stream_response, consumed, frames>>

-----------------------------------------------------------------------------
(* The server *)

NoneInFlight == config_post.status = 0 /\ \A r \in Requests : pc[r] = "idle"

Handler(r, outcomes) ==
    \/ GetLoad(r)
    \/ GetSave(r)
    \/ Build(r)
    \/ Advance(r)
    \/ SetSave(r)
    \/ Provider(r, outcomes)
    \/ Finish(r)

\* requests served one at a time, with any body, and config updates between them
StartAlone(r) ==
    /\ NoneInFlight
    /\ Start(r, RequestBodies)
    /\ pre_states' = [pre_states EXCEPT ![r] = call_state_file]
    /\ turns' = turns

ConfigAlone == NoneInFlight /\ Config(ConfigBodies)

Next ==
    \/ StartAlone(1)
    \/ \E r \in Requests : Handler(r, ProviderOutcomes)
    \/ ConfigAlone
    \/ ConfigRespond

Spec == Init /\ [][Next]_vars

\* the threaded server: handlers of well-formed turns, which the provider
\* answers, interleave step by step
StartThread(r) ==
    /\ turns < MaxTurns
    /\ Start(r, TurnBodies)
    /\ turns' = turns + 1
    /\ pre_states' = pre_states

NextThreaded ==
    \/ \E r \in Requests : StartThread(r)
    \/ \E r \in Requests : Handler(r, {"text"})

SpecThreaded == Init /\ [][NextThreaded]_vars

\* generate_streaming_response as a function of the provider's stream and of
\* assistant_config: it is given any stream under any config the server can
\* have loaded, and the config is updated while the stream is iterated
InitStream ==
    /\ Loaded
    /\ flow_nodes = load_pathways(DefaultPathways)
    /\ call_state_file = EmptyStates
    /\ stream_response \in ProviderStreams
    /\ consumed = <<>>
    /\ frames = <<>>
    /\ stream_pc = "open"

NextStream ==
    \/ generate_streaming_response
    \/ StreamEnd
    \/ Config(MappingBodies)
    \/ ConfigRespond

SpecStream == InitStream /\ [][NextStream]_vars

-----------------------------------------------------------------------------
(* Claims *)

\* the handler of request r has resolved its node and not yet built anything
Resolved(r) == pc[r] = "build"
\* the handler of request r got as far as invoking the provider
ReachedProvider(r) == pc[r] = "responded" /\ response[r].provider /= "none"

\* C1: for a callId with no entry in the store, get_current_node_name returns
\* "start" when the graph has a node "start" and the first-enumerated node
\* otherwise, and writes that name to the store; a call that has a stored node
\* gets that node back and the store is left as it was, so a second
\* get_current_node_name with no dispatch in between returns the same node.
C1_UnseenCallGetsDefaultNode ==
    \A r \in Requests :
        Resolved(r) =>
            LET c == request_data[r].call_id
                expected == IF \E i \in 1..Len(flow_nodes) : flow_nodes[i].name = "start"
                            THEN "start"
                            ELSE flow_nodes[1].name
            IN  /\ c \notin DOMAIN pre_states[r] =>
                     /\ current_node_name[r] = expected
                     /\ c \in DOMAIN call_state_file
                     /\ call_state_file[c] = expected
                     /\ \A d \in DOMAIN pre_states[r] :
                            d \in DOMAIN call_state_file /\ call_state_file[d] = pre_states[r][d]
                     /\ get_current_node_name(call_state_file, c).node_name = expected
                /\ (c \in DOMAIN pre_states[r] /\ pre_states[r][c] /= "") =>
                     /\ current_node_name[r] = pre_states[r][c]
                     /\ call_state_file = pre_states[r]

\* C1 witness: an unseen call in a graph without "start" was given the first node
C1_Witness ==
    \E r \in Requests :
        /\ Resolved(r)
        /\ request_data[r].call_id \notin DOMAIN pre_states[r]
        /\ current_node_name[r] = "n"
        /\ call_state_file[request_data[r].call_id] = "n"

\* C2 as claimed: after a dispatch whose node n has destinations, the stored
\* node is the first destination's name iff that name is a node of the graph,
\* and is still n when it is not.
C2_StoredNodeIsFirstDestination ==
    \A r \in Requests :
        (ReachedProvider(r) /\ Len(NodeOf(current_node_name[r]).destinations) > 0) =>
            LET c == request_data[r].call_id
                n == current_node_name[r]
                first == NodeOf(n).destinations[1]
                is_node == /\ first.has_stepName
                           /\ \E i \in 1..Len(flow_nodes) : flow_nodes[i].name = first.stepName
            IN  /\ (first.has_stepName /\ call_state_file[c] = first.stepName) <=> is_node
                /\ ~is_node => call_state_file[c] = n
\* C3: in every dispatch, streaming or not, the write that advances the call's
\* stored node is done before the provider is invoked: a handler that is about
\* to invoke the provider, or has invoked it (also when the provider failed),
\* has written the next node and the store holds it.
C3_AdvanceBeforeProvider ==
    \A r \in Requests :
        (pc[r] = "provider" \/ ReachedProvider(r)) =>
            LET c == request_data[r].call_id
                destinations == NodeOf(current_node_name[r]).destinations
                advances == /\ Len(destinations) > 0
                            /\ destinations[1].has_stepName
                            /\ destinations[1].stepName /= ""
                            /\ \E i \in 1..Len(flow_nodes) :
                                   flow_nodes[i].name = destinations[1].stepName
            IN  IF advances
                THEN /\ wrote[r] = destinations[1].stepName
                     /\ call_state_file[c] = destinations[1].stepName
                ELSE /\ wrote[r] = ""
                     /\ call_state_file[c] = current_node_name[r]

\* C3 witness: the provider failed on a streaming request and the store holds
\* the node the handler advanced to
C3_Witness ==
    \E r \in Requests :
        /\ pc[r] = "responded"
        /\ response[r].provider = "error"
        /\ request_data[r].stream
        /\ current_node_name[r] = "n"
        /\ wrote[r] = "m"
        /\ call_state_file[request_data[r].call_id] = "m"

\* C4: the transition of a dispatch does not depend on the request's messages,
\* its stream flag or the provider's output: when a dispatch served alone has
\* been answered, the store is a function of the store at arrival, the callId,
\* the graph and the config only.
C4_TransitionUnconditional ==
    \A r \in Requests :
        (pc[r] = "responded" /\ request_data[r].has_call_id) =>
            LET c == request_data[r].call_id
                before == pre_states[r]
                has(name) == \E i \in 1..Len(flow_nodes) : flow_nodes[i].name = name
                node(name) == flow_nodes[CHOOSE i \in 1..Len(flow_nodes) :
                                             flow_nodes[i].name = name]
                seen == c \in DOMAIN before /\ before[c] /= ""
                n == IF seen THEN before[c]
                     ELSE IF has("start") THEN "start" ELSE flow_nodes[1].name
                resolved == IF seen THEN before
                            ELSE [d \in DOMAIN before \cup {c} |->
                                     IF d = c THEN n ELSE before[d]]
                builds == /\ has(n)
                          /\ \E i \in 1..Len(assistant_config) :
                                 assistant_config[i][1] = KeyForwarding
                          /\ HasModelId(assistant_config)
                target == IF /\ Len(node(n).destinations) > 0
                             /\ node(n).destinations[1].has_stepName
                             /\ node(n).destinations[1].stepName /= ""
                             /\ has(node(n).destinations[1].stepName)
                          THEN node(n).destinations[1].stepName
                          ELSE n
            IN  call_state_file =
                    IF ~seen /\ Len(flow_nodes) = 0 THEN before
                    ELSE IF ~builds THEN resolved
                    ELSE [d \in DOMAIN resolved |-> IF d = c THEN target ELSE resolved[d]]

\* C4 witness: a streaming request with an empty history whose provider call
\* returned a function call has moved the call from "start" to "end"
C4_Witness ==
    \E r \in Requests :
        /\ pc[r] = "responded"
        /\ response[r].provider = "function_call"
        /\ request_data[r].stream
        /\ request_data[r].messages = <<>>
        /\ current_node_name[r] = "start"
        /\ call_state_file[request_data[r].call_id] = "end"

\* C5: two concurrent dispatches for one callId can lose an update.  Each
\* handler writes the first destination of the node it resolved itself,
\* whatever the store holds when it writes, so two handlers that resolved the
\* same node n wrote the same node m.
C5_WriteFollowsOwnRead ==
    \A r \in Requests :
        (wrote[r] /= "") =>
            /\ InGraph(current_node_name[r])
            /\ Len(NodeOf(current_node_name[r]).destinations) > 0
            /\ wrote[r] = NodeOf(current_node_name[r]).destinations[1].stepName
            /\ \A q \in Requests :
                   (wrote[q] /= "" /\ current_node_name[q] = current_node_name[r]) =>
                       wrote[q] = wrote[r]

\* C5 witness: the lost update.  In the chain n -> m -> p two dispatches for
\* the same call have both resolved n and both been answered, and the stored
\* node is m, not p.
C5_Witness ==
    \E r, q \in Requests :
        /\ r /= q
        /\ request_data[r].call_id = request_data[q].call_id
        /\ pc[r] = "responded" /\ pc[q] = "responded"
        /\ response[r].status = 200 /\ response[q].status = 200
        /\ current_node_name[r] = "n" /\ current_node_name[q] = "n"
        /\ wrote[r] = "m" /\ wrote[q] = "m"
        /\ call_state_file[request_data[r].call_id] = "m"
        /\ NextNodeName(NodeOf("m")) = "p"
\* a POST /config with body b was handled in this step
ConfigStep == config_post.status = 0 /\ config_post'.status /= 0

\* C6 as claimed: after a successful POST /config with a mapping P, the config
\* holds P[k] at every top-level key k of P, every other key keeps its value,
\* and the persisted config (what assistant_config.json loads as) equals the
\* in-memory config.
C6_ShallowMergePersisted ==
    [][ (ConfigStep /\ config_post'.status = 200 /\ config_post'.body.kind = "obj") =>
            LET P == config_post'.body.members
                keysP == {P[i][1] : i \in 1..Len(P)}
            IN  /\ \A i \in 1..Len(P) :
                       /\ DictHas(assistant_config', P[i][1])
                       /\ DictGet(assistant_config', P[i][1]) = P[i][2]
                /\ \A k \in DictKeys(assistant_config) \ keysP :
                       /\ DictHas(assistant_config', k)
                       /\ DictGet(assistant_config', k) = DictGet(assistant_config, k)
                /\ DictKeys(assistant_config') = DictKeys(assistant_config) \cup keysP
                /\ DictEq(json_load(config_file'), assistant_config') ]_vars

\* C7: config update is idempotent: from every reachable config and for every
\* body P, handling POST /config with P twice leaves the same in-memory and
\* persisted config, and gives the same status, as handling it once.
C7_ConfigUpdateIdempotent ==
    \A P \in ConfigBodies :
        LET once == config_handler(assistant_config, config_file, P)
            twice == config_handler(once.config, once.file, P)
        IN  /\ twice.config = once.config
            /\ twice.file = once.file
            /\ twice.status = once.status

\* C7 witness: a POST that replaced the nested model object has been handled,
\* and handling the same body again would change nothing
C7_Witness ==
    /\ config_post.status = 200
    /\ config_post.body = ObjBody(<<<<KeyModel, JObj(<<<<"provider", "azure">>>>)>>>>)
    /\ DictGet(assistant_config, KeyModel) = JObj(<<<<"provider", "azure">>>>)
    /\ DictHas(assistant_config, KeyForwarding)
    /\ config_handler(assistant_config, config_file, config_post.body).config
           = assistant_config

\* C8 as claimed: a POST /config whose body is empty or is no mapping is
\* answered 400 and leaves the in-memory and the persisted config unchanged.
C8_InvalidBodyRejected ==
    [][ (ConfigStep /\ (config_post'.body.kind /= "obj"
                          \/ Len(config_post'.body.members) = 0)) =>
            /\ config_post'.status = 400
            /\ assistant_config' = assistant_config
            /\ config_file' = config_file ]_vars

\* C9: in every reachable config state get_available_functions returns exactly
\* the transferCall descriptor when forwardingPhoneNumber is a non-empty string
\* and an empty list when it is empty or absent; the parameters a dispatch has
\* built carry functions and function_call = "auto" exactly in the first case.
C9_TransferCallIffForwarding ==
    LET forwarding == \E i \in 1..Len(assistant_config) :
                          /\ assistant_config[i][1] = KeyForwarding
                          /\ assistant_config[i][2].t = "str"
                          /\ assistant_config[i][2].s /= ""
        offered == get_available_functions(assistant_config)
    IN  /\ forwarding => (Len(offered) = 1 /\ offered[1].name = "transferCall")
        /\ ~forwarding => offered = <<>>
        /\ \A r \in Requests :
               openai_params[r].built =>
                   /\ openai_params[r].has_functions <=> forwarding
                   /\ (openai_params[r].function_call = "auto") <=> forwarding
                   /\ forwarding => (/\ Len(openai_params[r].functions) = 1
                                     /\ openai_params[r].functions[1].name = "transferCall")
                   /\ ~forwarding => openai_params[r].functions = <<>>

\* C9 witness: with forwardingPhoneNumber set to "" a dispatch has invoked the
\* provider without a function schema
C9_Witness ==
    \E r \in Requests :
        /\ ReachedProvider(r)
        /\ DictHas(assistant_config, KeyForwarding)
        /\ DictGet(assistant_config, KeyForwarding) = JStr("")
        /\ ~openai_params[r].has_functions
        /\ openai_params[r].functions = <<>>

\* C10 as claimed: a dispatch whose node is in the graph completes its request
\* building; with forwardingPhoneNumber unset the function schema is empty and
\* the system prompt is the node's instruction, with it configured the system
\* prompt is the instruction followed by the transfer sentence.
C10_SystemPromptFollowsForwarding ==
    \A r \in Requests :
        (/\ pc[r] \in {"advance", "set_save", "provider", "responded"}
         /\ request_data[r].has_call_id
         /\ Len(flow_nodes) > 0
         /\ InGraph(current_node_name[r])
         /\ HasModelId(assistant_config)) =>
            LET node == NodeOf(current_node_name[r])
                instruction == IF node.has_instruction THEN node.instruction
                               ELSE NoInstructions
                configured == \E i \in 1..Len(assistant_config) :
                                  /\ assistant_config[i][1] = KeyForwarding
                                  /\ assistant_config[i][2].t = "str"
                                  /\ assistant_config[i][2].s /= ""
            IN  /\ openai_params[r].built
                /\ openai_params[r].messages[1].role = "system"
                /\ openai_params[r].messages[1].content =
                       IF configured THEN instruction \o TransferSentence ELSE instruction
                /\ ~configured => openai_params[r].functions = <<>>

\* C11 as claimed: a POST /chat/completions whose body has no call.id is
\* answered 400, the provider is not invoked and the store is left as it was.
C11_MissingCallIdRejected ==
    \A r \in Requests :
        (pc[r] = "responded" /\ ~request_data[r].has_call_id) =>
            /\ response[r].status = 400
            /\ response[r].provider = "none"
            /\ call_state_file = pre_states[r]

\* C12 as claimed: when the store maps the callId to a name that is no node of
\* the graph, the dispatch is answered 400, the provider is not invoked and the
\* store is left as it was.
C12_UnknownNodeFailsClosed ==
    \A r \in Requests :
        (/\ pc[r] = "responded"
         /\ request_data[r].has_call_id
         /\ request_data[r].call_id \in DOMAIN pre_states[r]
         /\ pre_states[r][request_data[r].call_id] /= ""
         /\ \A i \in 1..Len(flow_nodes) :
                flow_nodes[i].name /= pre_states[r][request_data[r].call_id]) =>
            /\ response[r].status = 400
            /\ response[r].provider = "none"
            /\ call_state_file = pre_states[r]

\* C16: the message list sent to the provider is the computed system message
\* followed by only the last message of the caller's history: its length is 2
\* when the request's messages list is non-empty and 1 when it is empty or
\* missing, its first element has role system, and no earlier turn is in it.
C16_SystemPlusLastMessage ==
    \A r \in Requests :
        openai_params[r].built =>
            LET history == request_data[r].messages
                given == request_data[r].has_messages /\ history /= <<>>
                sent == openai_params[r].messages
            IN  /\ Len(sent) = IF given THEN 2 ELSE 1
                /\ sent[1].role = "system"
                /\ sent[1].content =
                       SystemMessage(NodeOf(current_node_name[r]), assistant_config)
                /\ given => sent[2] = history[Len(history)]
                /\ \A i \in 1..(Len(history) - 1) :
                       \A j \in 1..Len(sent) : sent[j] /= history[i]

\* C16 witness: of a history of three turns only the last was sent
C16_Witness ==
    \E r \in Requests :
        /\ ReachedProvider(r)
        /\ Len(request_data[r].messages) = 3
        /\ Len(openai_params[r].messages) = 2
        /\ openai_params[r].messages[2] = Msg("user", "transfer me")

\* C18 as claimed: under any interleaving, a callId that has an entry in the
\* store has one in every later state, and a step of a request for another
\* callId neither removes nor changes that entry.
C18_StateAccumulatesIsolated ==
    [][ \A d \in DOMAIN call_state_file :
            /\ d \in DOMAIN call_state_file'
            /\ \A r \in Requests :
                   (pc'[r] /= pc[r] /\ request_data[r].call_id /= d) =>
                       call_state_file'[d] = call_state_file[d] ]_vars

\* C19: starting from an empty store and a non-empty graph, after any
\* interleaving of dispatches every node name in the store is the name of a
\* node of the graph.
C19_StoredNamesAreNodes ==
    (boot_states = EmptyStates /\ Len(flow_nodes) > 0) =>
        \A c \in DOMAIN call_state_file :
            \E i \in 1..Len(flow_nodes) : flow_nodes[i].name = call_state_file[c]

\* C19 witness: from an empty store two calls were dispatched, one of them
\* by two interleaved handlers, and both stand on node "m" of the chain
C19_Witness ==
    /\ boot_states = EmptyStates
    /\ call_state_file = [c \in CallIds |-> "m"]
    /\ \E r \in Requests : wrote[r] = "m" /\ pc[r] = "responded"

ChunkStep == Len(consumed') = Len(consumed) + 1
\* the chunk it took, and the frames it yielded for it
TakenChunk == consumed'[Len(consumed')]
YieldedFrames == SubSeq(frames', Len(frames) + 1, Len(frames'))
IsFunctionCallFrame(frame) == frame.kind = "function_call"
IsContentFrame(frame) == frame.kind = "content"
\* the chunk carries a function_call fragment named transferCall
IsTransferCall(chunk) ==
    chunk.function_call.present /\ chunk.function_call.name = "transferCall"

\* C13 as claimed: a chunk with a transferCall fragment whose arguments parse
\* as JSON yields exactly one function_call frame, with the destination the
\* arguments give; one whose arguments do not parse yields no function_call
\* frame and the stream goes on.
C13_TransferCallFrames ==
    [][ (ChunkStep /\ IsTransferCall(TakenChunk)) =>
            LET parsed == json_loads(TakenChunk.function_call.arguments)
                calls == SelectSeq(YieldedFrames, IsFunctionCallFrame)
            IN  IF parsed.raised
                THEN calls = <<>> /\ stream_pc' = "open"
                ELSE /\ Len(calls) = 1
                     /\ TakenChunk.function_call.arguments = ArgsDestination =>
                            calls[1].destination = JStr("+15550123") ]_vars

C17_ContentFramesInOrder ==
    LET whole == consumed \o stream_response
        taken == IF stream_pc = "open" THEN consumed ELSE whole
        contents == SelectSeq(frames, IsContentFrame)
        with_content == {i \in 1..Len(taken) : taken[i].has_content}
    IN  stream_pc /= "none" =>
            /\ {contents[j].chunk : j \in 1..Len(contents)} = with_content
            /\ \A j \in 1..Len(contents) :
                   /\ contents[j].content = whole[contents[j].chunk].content
                   /\ \A k \in 1..Len(contents) :
                          contents[k].chunk = contents[j].chunk => k = j
            /\ \A j, k \in 1..Len(frames) :
                   j < k =>
                       \/ frames[j].chunk < frames[k].chunk
                       \/ /\ frames[j].chunk = frames[k].chunk
                          /\ frames[j].kind = "content"
                          /\ frames[k].kind = "function_call"
            /\ \A j \in 1..Len(frames) : frames[j].kind \in {"content", "function_call"}
            /\ stream_pc = "ended" => stream_response = <<>>

====
